---- MODULE Spec2Model ----
(***************************************************************************)
(* A model of the AI server of src/main.py: the /v1/chat/completions proxy *)
(* and the /v1/prefill extraction pipeline (parameter normaliser, provider *)
(* dispatcher, JSON extractor, record canonicaliser, CSV store).           *)
(*                                                                         *)
(* Text is a sequence of characters, each character a one-character        *)
(* string.  Three characters that TLA+ strings cannot hold conveniently    *)
(* are written as atoms: "BT" is the backtick, "LDQ" and "RDQ" the left    *)
(* and right double smart quotes, "RSQ" the right single smart quote.      *)
(***************************************************************************)
EXTENDS Integers, Sequences, FiniteSets, TLC

(***************************************************************************)
(* Characters and strings (Python str operations used by the source).      *)
(***************************************************************************)
DQ == "\""

LF == "\n"

\* str.strip() removes whitespace; of the characters drawn here, these are it
IsWs(c) == c \in {" ", LF}

Digits == <<"0", "1", "2", "3", "4", "5", "6", "7", "8", "9">>

IsDigit(c) == \E d \in 1..10 : Digits[d] = c

DigitVal(c) == (CHOOSE d \in 1..10 : Digits[d] = c) - 1

StartsWith(s, p) == Len(s) >= Len(p) /\ SubSeq(s, 1, Len(p)) = p

EndsWith(s, p) == Len(s) >= Len(p) /\ SubSeq(s, Len(s) - Len(p) + 1, Len(s)) = p

Contains(s, c) == \E i \in 1..Len(s) : s[i] = c

RECURSIVE LStrip(_)
LStrip(s) == IF s # <<>> /\ IsWs(Head(s)) THEN LStrip(Tail(s)) ELSE s

RECURSIVE RStrip(_)
RStrip(s) == IF s # <<>> /\ IsWs(s[Len(s)]) THEN RStrip(SubSeq(s, 1, Len(s) - 1)) ELSE s

Strip(s) == RStrip(LStrip(s))

\* str.replace(a, b) for a single character a
Replace(s, a, b) == [i \in 1..Len(s) |-> IF s[i] = a THEN b ELSE s[i]]

\* str.find(c): the first index of c (1-based), 0 when absent
Find(s, c) == IF Contains(s, c) THEN CHOOSE i \in 1..Len(s) : s[i] = c /\ \A j \in 1..(i - 1) : s[j] # c ELSE 0

\* str.rfind(c): the last index of c (1-based), 0 when absent
RFind(s, c) == IF Contains(s, c) THEN CHOOSE i \in 1..Len(s) : s[i] = c /\ \A j \in (i + 1)..Len(s) : s[j] # c ELSE 0

RECURSIVE SplitLines(_)
SplitLines(s) ==
    IF s = <<>> THEN <<>>
    ELSE LET i == Find(s, LF) IN
         IF i = 0 THEN <<s>>
         ELSE <<SubSeq(s, 1, i - 1)>> \o SplitLines(SubSeq(s, i + 1, Len(s)))

RECURSIVE Join(_, _)
Join(lines, sep) ==
    IF lines = <<>> THEN <<>>
    ELSE IF Len(lines) = 1 THEN lines[1]
    ELSE lines[1] \o sep \o Join(Tail(lines), sep)

RECURSIVE IntToStr(_)
IntToStr(n) ==
    IF n < 0 THEN <<"-">> \o IntToStr(-n)
    ELSE IF n < 10 THEN <<Digits[n + 1]>>
    ELSE IntToStr(n \div 10) \o <<Digits[(n % 10) + 1]>>

(***************************************************************************)
(* Decoded JSON values (what json.loads returns).  Every value is a record *)
(* of one shape: t the Python type, s the characters of a str or the       *)
(* fraction digits of a float, n the int or the whole part of a float,     *)
(* neg the sign of a float, m the items of a dict (key/value pairs, in     *)
(* insertion order) or of a list.                                          *)
(***************************************************************************)
JNull == [t |-> "null", s |-> <<>>, n |-> 0, neg |-> FALSE, m |-> <<>>]

JBool(b) == [t |-> "bool", s |-> <<>>, n |-> IF b THEN 1 ELSE 0, neg |-> FALSE, m |-> <<>>]

JStr(s) == [t |-> "str", s |-> s, n |-> 0, neg |-> FALSE, m |-> <<>>]

JInt(n) == [t |-> "int", s |-> <<>>, n |-> n, neg |-> FALSE, m |-> <<>>]

RECURSIVE StripZeros(_)
StripZeros(f) == IF Len(f) > 1 /\ f[Len(f)] = "0" THEN StripZeros(SubSeq(f, 1, Len(f) - 1)) ELSE f

\* float(lexeme): the fraction loses its trailing zeros
JFloat(neg, whole, frac) == [t |-> "float", s |-> StripZeros(frac), n |-> whole, neg |-> neg, m |-> <<>>]

JObj(m) == [t |-> "dict", s |-> <<>>, n |-> 0, neg |-> FALSE, m |-> m]

JArr(m) == [t |-> "list", s |-> <<>>, n |-> 0, neg |-> FALSE, m |-> m]

\* d[k] = v on a dict: an existing key keeps its place and takes the new value
DictSet(m, k, v) ==
    IF \E i \in 1..Len(m) : m[i].k = k
    THEN [i \in 1..Len(m) |-> IF m[i].k = k THEN [k |-> k, v |-> v] ELSE m[i]]
    ELSE Append(m, [k |-> k, v |-> v])

HasKey(d, k) == \E i \in 1..Len(d.m) : d.m[i].k = k

DictGet(d, k) == d.m[CHOOSE i \in 1..Len(d.m) : d.m[i].k = k].v

(***************************************************************************)
(* json.loads (the standard decoder, strict mode): a recursive-descent     *)
(* scan.  A parse returns [ok, v, next]: next is the index after the value.*)
(* Escapes in strings, exponents and NaN/Infinity are not decoded: the     *)
(* texts drawn below hold no backslash, no digit followed by e/E and no    *)
(* N or I outside strings.                                                 *)
(***************************************************************************)
ParseFail == [ok |-> FALSE, v |-> JNull, next |-> 0]

ParseOk(v, next) == [ok |-> TRUE, v |-> v, next |-> next]

RECURSIVE SkipWs(_, _)
SkipWs(t, i) == IF i <= Len(t) /\ IsWs(t[i]) THEN SkipWs(t, i + 1) ELSE i

RECURSIVE DigitsEnd(_, _)
\* the index after the run of digits starting at i
DigitsEnd(t, i) == IF i <= Len(t) /\ IsDigit(t[i]) THEN DigitsEnd(t, i + 1) ELSE i

RECURSIVE DigitsVal(_, _)
DigitsVal(s, acc) == IF s = <<>> THEN acc ELSE DigitsVal(Tail(s), acc * 10 + DigitVal(Head(s)))

\* NUMBER_RE = (-?(?:0|[1-9]\d*))(\.\d+)? matched at i
ParseNumber(t, i) ==
    LET neg == t[i] = "-"
        a == IF neg THEN i + 1 ELSE i
    IN  IF a > Len(t) \/ ~IsDigit(t[a]) THEN ParseFail
        ELSE LET b == IF t[a] = "0" THEN a + 1 ELSE DigitsEnd(t, a)
                 whole == DigitsVal(SubSeq(t, a, b - 1), 0)
                 c == IF b + 1 <= Len(t) /\ t[b] = "." /\ IsDigit(t[b + 1]) THEN DigitsEnd(t, b + 1) ELSE b
             IN  IF c = b
                 THEN ParseOk(JInt(IF neg THEN -whole ELSE whole), b)
                 ELSE ParseOk(JFloat(neg, whole, SubSeq(t, b + 1, c - 1)), c)

\* scanstring: i is the index after the opening quote
ParseString(t, i) ==
    LET rest == SubSeq(t, i, Len(t))
        j == Find(rest, DQ)
    IN  IF j = 0 THEN ParseFail
        ELSE LET body == SubSeq(rest, 1, j - 1) IN
             IF Contains(body, LF) THEN ParseFail
             ELSE ParseOk(JStr(body), i + j)

IsLit(t, i, lit) == i + Len(lit) - 1 <= Len(t) /\ SubSeq(t, i, i + Len(lit) - 1) = lit

RECURSIVE ParseValue(_, _)
RECURSIVE ParseMembers(_, _, _)
RECURSIVE ParseElements(_, _, _)

\* JSONObject's loop: i is the index of the opening quote of a key
ParseMembers(t, i, acc) ==
    LET key == ParseString(t, i + 1) IN
    IF ~key.ok THEN ParseFail
    ELSE LET j == SkipWs(t, key.next) IN
         IF j > Len(t) \/ t[j] # ":" THEN ParseFail
         ELSE LET val == ParseValue(t, SkipWs(t, j + 1)) IN
              IF ~val.ok THEN ParseFail
              ELSE LET l == SkipWs(t, val.next)
                       acc2 == DictSet(acc, key.v.s, val.v)
                   IN  IF l > Len(t) THEN ParseFail
                       ELSE IF t[l] = "}" THEN ParseOk(JObj(acc2), l + 1)
                       ELSE IF t[l] # "," THEN ParseFail
                       ELSE LET p == SkipWs(t, l + 1) IN
                            IF p <= Len(t) /\ t[p] = DQ THEN ParseMembers(t, p, acc2) ELSE ParseFail

\* JSONObject: i is the index after the opening brace
ParseObject(t, i) ==
    LET j == SkipWs(t, i) IN
    IF j > Len(t) THEN ParseFail
    ELSE IF t[j] = "}" THEN ParseOk(JObj(<<>>), j + 1)
    ELSE IF t[j] = DQ THEN ParseMembers(t, j, <<>>)
    ELSE ParseFail

\* JSONArray's loop: i is the index of the first character of an element
ParseElements(t, i, acc) ==
    LET val == ParseValue(t, i) IN
    IF ~val.ok THEN ParseFail
    ELSE LET l == SkipWs(t, val.next)
             acc2 == Append(acc, val.v)
         IN  IF l > Len(t) THEN ParseFail
             ELSE IF t[l] = "]" THEN ParseOk(JArr(acc2), l + 1)
             ELSE IF t[l] # "," THEN ParseFail
             ELSE ParseElements(t, SkipWs(t, l + 1), acc2)

\* JSONArray: i is the index after the opening bracket
ParseArray(t, i) ==
    LET j == SkipWs(t, i) IN
    IF j > Len(t) THEN ParseFail
    ELSE IF t[j] = "]" THEN ParseOk(JArr(<<>>), j + 1)
    ELSE ParseElements(t, j, <<>>)

\* scan_once: the value starting at i
ParseValue(t, i) ==
    IF i > Len(t) THEN ParseFail
    ELSE IF t[i] = DQ THEN ParseString(t, i + 1)
    ELSE IF t[i] = "{" THEN ParseObject(t, i + 1)
    ELSE IF t[i] = "[" THEN ParseArray(t, i + 1)
    ELSE IF IsLit(t, i, <<"n", "u", "l", "l">>) THEN ParseOk(JNull, i + 4)
    ELSE IF IsLit(t, i, <<"t", "r", "u", "e">>) THEN ParseOk(JBool(TRUE), i + 4)
    ELSE IF IsLit(t, i, <<"f", "a", "l", "s", "e">>) THEN ParseOk(JBool(FALSE), i + 5)
    ELSE IF IsDigit(t[i]) \/ t[i] = "-" THEN ParseNumber(t, i)
    ELSE ParseFail

\* json.loads(t): [ok, v]; ok is FALSE where json.loads raises
JsonLoads(t) ==
    LET r == ParseValue(t, SkipWs(t, 1)) IN
    IF r.ok /\ SkipWs(t, r.next) = Len(t) + 1 THEN [ok |-> TRUE, v |-> r.v] ELSE [ok |-> FALSE, v |-> JNull]

(***************************************************************************)
(* The text normaliser and the multi-strategy extractor.                   *)
(***************************************************************************)
Fence == <<"BT", "BT", "BT">>

\* the None passed for an absent text: a sequence that is no text
None == <<"<None>">>

_strip_code_fences(text0) ==
    LET text == Strip(text0) IN
    IF StartsWith(text, Fence)
    THEN LET lines0 == SplitLines(text)
             lines1 == IF lines0 # <<>> /\ StartsWith(lines0[1], Fence) THEN Tail(lines0) ELSE lines0
             lines2 == IF lines1 # <<>> /\ StartsWith(Strip(lines1[Len(lines1)]), Fence)
                       THEN SubSeq(lines1, 1, Len(lines1) - 1) ELSE lines1
         IN  Strip(Join(lines2, <<LF>>))
    ELSE text

\* line 126: the three replace calls
NormalizeQuotes(text) == Replace(Replace(Replace(text, "LDQ", DQ), "RDQ", DQ), "RSQ", "'")

ValueError == [ok |-> FALSE, v |-> JNull]

\* try: return r / except Exception: go on with s
OrElse(r, s) == IF r.ok THEN r ELSE s

\* lines 135-141: re.search(r"\{.*\}", text, re.DOTALL) matches from the first
\* "{" (index a) to the last "}" (index b) when that one comes later
GreedyParse(text, a, b) == IF a # 0 /\ b > a THEN JsonLoads(SubSeq(text, a, b)) ELSE ValueError

RECURSIVE BraceScanFlat(_, _, _, _)
\* a scan that does not track nesting: the span ends at the first "}"
BraceScanFlat(text, start, i, depth) ==
    IF i > Len(text) THEN ValueError
    ELSE IF text[i] = "}" THEN OrElse(JsonLoads(SubSeq(text, start, i)), ValueError)
    ELSE BraceScanFlat(text, start, i + 1, depth)

RECURSIVE BraceScan(_, _, _, _)
\* lines 147-157: the loop over text[start:], i the current index, depth the counter
BraceScan(text, start, i, depth) ==
    IF i > Len(text) THEN ValueError
    ELSE IF text[i] = "{" THEN BraceScan(text, start, i + 1, depth + 1)
    ELSE IF text[i] = "}"
         THEN IF depth - 1 = 0
              THEN OrElse(JsonLoads(SubSeq(text, start, i)), ValueError)
              ELSE BraceScan(text, start, i + 1, depth - 1)
    ELSE BraceScan(text, start, i + 1, depth)

\* lines 144-157
BalancedParse(text, start) == IF start # 0 THEN BraceScan(text, start, start, 0) ELSE ValueError

\* lines 128-159, on the normalised text
Strategies(text) ==
    OrElse(JsonLoads(text),
           OrElse(GreedyParse(text, Find(text, "{"), RFind(text, "}")),
                  BalancedParse(text, Find(text, "{"))))

safe_json_from_text(text) ==
    IF text = None THEN ValueError ELSE Strategies(NormalizeQuotes(_strip_code_fences(text)))

(***************************************************************************)
(* The record canonicaliser.                                               *)
(***************************************************************************)
RECURSIVE PyRepr(_)
RECURSIVE ReprItems(_, _)

\* ", ".join of the reprs of a list's items (isDict: of "key: value" pairs)
ReprItems(m, isDict) ==
    IF m = <<>> THEN <<>>
    ELSE LET first == IF isDict THEN PyRepr(JStr(m[1].k)) \o <<":", " ">> \o PyRepr(m[1].v) ELSE PyRepr(m[1])
         IN  IF Len(m) = 1 THEN first ELSE first \o <<",", " ">> \o ReprItems(Tail(m), isDict)

\* repr(v).  A decoded str holds no double quote (escapes are not drawn), so
\* repr quotes it with ' unless it holds a ', and then with "
PyRepr(v) ==
    CASE v.t = "null" -> <<"N", "o", "n", "e">>
      [] v.t = "bool" -> IF v.n = 1 THEN <<"T", "r", "u", "e">> ELSE <<"F", "a", "l", "s", "e">>
      [] v.t = "int" -> IntToStr(v.n)
      [] v.t = "float" -> (IF v.neg THEN <<"-">> ELSE <<>>) \o IntToStr(v.n) \o <<".">> \o v.s
      [] v.t = "str" -> IF Contains(v.s, "'") THEN <<DQ>> \o v.s \o <<DQ>> ELSE <<"'">> \o v.s \o <<"'">>
      [] v.t = "list" -> <<"[">> \o ReprItems(v.m, FALSE) \o <<"]">>
      [] v.t = "dict" -> <<"{">> \o ReprItems(v.m, TRUE) \o <<"}">>

\* str(v): a str is itself, everything else its repr
PyStr(v) == IF v.t = "str" THEN v.s ELSE PyRepr(v)

S_amount == <<"a", "m", "o", "u", "n", "t">>

S_currency == <<"c", "u", "r", "r", "e", "n", "c", "y">>

S_due_date == <<"d", "u", "e", "_", "d", "a", "t", "e">>

S_description == <<"d", "e", "s", "c", "r", "i", "p", "t", "i", "o", "n">>

S_company == <<"c", "o", "m", "p", "a", "n", "y">>

S_contact == <<"c", "o", "n", "t", "a", "c", "t">>

\* lines 167 and 294: the field list
fields == <<S_amount, S_currency, S_due_date, S_description, S_company, S_contact>>

\* d.get on a value that is no dict raises AttributeError
AttributeError == [ok |-> FALSE, rec |-> <<>>]

\* a field policy without lines 171-172: None is stringified like any value
CanonFieldKeepingNone(d, k) == Strip(PyStr(IF HasKey(d, k) THEN DictGet(d, k) ELSE JStr(<<>>)))

\* lines 170-175: the value stored for field k
CanonField(d, k) ==
    LET v0 == IF HasKey(d, k) THEN DictGet(d, k) ELSE JStr(<<>>)
        v1 == IF v0.t = "null" THEN JStr(<<>>) ELSE v0
        v2 == IF k = S_amount /\ v1.t \in {"int", "float", "bool"} THEN JStr(PyStr(v1)) ELSE v1
    IN  Strip(PyStr(v2))

canonicalize_record(d) ==
    IF d.t # "dict" THEN AttributeError
    ELSE [ok |-> TRUE, rec |-> [i \in 1..Len(fields) |-> [k |-> fields[i], v |-> CanonField(d, fields[i])]]]

(***************************************************************************)
(* The parameter normaliser and the provider dispatcher.  A request body   *)
(* is a dict: a function from its keys to their values.                    *)
(***************************************************************************)
S_gpt5 == <<"g", "p", "t", "-", "5">>

S_gpt5mini == <<"g", "p", "t", "-", "5", "-", "m", "i", "n", "i">>

S_free == <<":", "f", "r", "e", "e">>

OPENAI_URL == "https://api.openai.com/v1/chat/completions"

OPENROUTER_URL == "https://openrouter.ai/api/v1/chat/completions"

\* os.getenv of a variable that is not set
Unset == "<unset>"

\* `not KEY`: None and the empty string are falsy
KeyAbsent(key) == key \in {Unset, ""}

\* body.get("model", "")
BodyModel(body) == IF "model" \in DOMAIN body THEN body["model"] ELSE <<>>

\* a rename that copies max_tokens and leaves it in place (no pop)
NormalizeKeepingLegacy(body) ==
    IF StartsWith(BodyModel(body), S_gpt5) /\ "max_tokens" \in DOMAIN body /\ "max_completion_tokens" \notin DOMAIN body
    THEN [k \in DOMAIN body \cup {"max_completion_tokens"} |->
            IF k = "max_completion_tokens" THEN body["max_tokens"] ELSE body[k]]
    ELSE body

normalize_for_gpt5(body) ==
    IF StartsWith(BodyModel(body), S_gpt5) /\ "max_tokens" \in DOMAIN body /\ "max_completion_tokens" \notin DOMAIN body
    THEN [k \in (DOMAIN body \ {"max_tokens"}) \cup {"max_completion_tokens"} |->
            IF k = "max_completion_tokens" THEN body["max_tokens"] ELSE body[k]]
    ELSE body

\* a classifier that forgets the ":free" suffix
IsOpenRouterBySlash(model) == Contains(model, "/")

is_openrouter_model(model) == Contains(model, "/") \/ EndsWith(model, S_free)

NoCall == [url |-> "", auth |-> "", json |-> <<>>]

\* forward_to_upstream up to its await: the HTTPException it raises, or the
\* POST it makes (url, Authorization header without the "Bearer " prefix, body)
forward_to_upstream(body, e) ==
    IF is_openrouter_model(BodyModel(body))
    THEN IF KeyAbsent(e.OPENROUTER_API_KEY)
         THEN [raised |-> TRUE, status |-> 500, detail |-> "OPENROUTER_API_KEY not set", call |-> NoCall]
         ELSE [raised |-> FALSE, status |-> 0, detail |-> "",
               call |-> [url |-> OPENROUTER_URL, auth |-> e.OPENROUTER_API_KEY, json |-> body]]
    ELSE IF KeyAbsent(e.OPENAI_API_KEY)
         THEN [raised |-> TRUE, status |-> 500, detail |-> "OPENAI_API_KEY not set", call |-> NoCall]
         ELSE [raised |-> FALSE, status |-> 0, detail |-> "",
               call |-> [url |-> OPENAI_URL, auth |-> e.OPENAI_API_KEY, json |-> body]]

(***************************************************************************)
(* The CSV store: data.csv as the sequence of rows written to it.  A row   *)
(* records the call that wrote it (hdr: writeheader, otherwise writerow)   *)
(* and its cells.  The file has size 0 exactly when it has no row.         *)
(***************************************************************************)
HeaderRow == [hdr |-> TRUE, cells |-> fields]

\* a need_header that forgets the file that exists with size 0
NeedHeaderIfAbsent(f) == ~f.exists

\* line 90
NeedHeader(f) == ~f.exists \/ f.rows = <<>>

\* lines 92-94: open(path, "w") truncates, writeheader writes the header
WriteHeader(f) == [exists |-> TRUE, rows |-> <<HeaderRow>>]

ensure_csv_header(f) == IF NeedHeader(f) THEN WriteHeader(f) ELSE f

\* lines 296-298: open(path, "a") and DictWriter.writerow: the values in field order
AppendRow(f, record) ==
    [exists |-> TRUE, rows |-> Append(f.rows, [hdr |-> FALSE, cells |-> [i \in 1..Len(fields) |-> record[i].v]])]

(***************************************************************************)
(* The two endpoints, each cut at its await of the upstream call.          *)
(***************************************************************************)
NoResp == [status |-> 0, body |-> ""]

Resp(status, body) == [status |-> status, body |-> body]

\* the payload {"success": False, "message": "something went wrong"}
Failure == "success=false;something went wrong"

\* the payload {"success": True, "message": "data extracted and written"}
Success == "success=true;data extracted and written"

\* what the server answers when a handler lets an exception escape
Unhandled == Resp(500, "Internal Server Error")

\* lines 258-266: the body prefill builds
PrefillBody(email_text, model) ==
    [model |-> model, messages |-> email_text, response_format |-> "json_object", max_completion_tokens |-> 1000]

\* a check of the email text as given, without strip()
PrefillRejectsUnstripped(payload) == payload.email_text = <<>>

\* line 224-229: the stripped email text is empty
PrefillRejects(payload) == Strip(payload.email_text) = <<>>

\* the handler at its call of forward_to_upstream: the HTTPException escapes
\* it (neither handler catches it), or the POST is made and awaited
Forwarded(fwd) ==
    IF fwd.raised
    THEN [sent |-> FALSE, resp |-> Resp(fwd.status, fwd.detail), call |-> NoCall]
    ELSE [sent |-> TRUE, resp |-> NoResp, call |-> fwd.call]

\* line 256: payload.model or "gpt-5-mini"
PrefillModel(payload) == IF payload.model \in {None, <<>>} THEN S_gpt5mini ELSE payload.model

\* lines 224-270: prefill up to its await
prefill_begin(payload, e) ==
    IF PrefillRejects(payload)
    THEN [sent |-> FALSE, resp |-> Resp(400, "email_text is required"), call |-> NoCall]
    ELSE Forwarded(forward_to_upstream(normalize_for_gpt5(PrefillBody(Strip(payload.email_text), PrefillModel(payload))), e))

\* line 189
ChatRejects(body) == "model" \notin DOMAIN body \/ "messages" \notin DOMAIN body

\* lines 187-197: chat_completions up to its await
chat_begin(body, e) ==
    IF ChatRejects(body)
    THEN [sent |-> FALSE, resp |-> Resp(400, "Fields 'model' and 'messages' are required"), call |-> NoCall]
    ELSE Forwarded(forward_to_upstream(normalize_for_gpt5(body), e))

\* the content of a 200 body that has no choices[0].message.content
Missing == <<"<Missing>">>

\* an upstream outcome: client.post raised httpx.HTTPError (error), or returned
\* a response with a status, a body that is JSON or not, and the content of
\* its first choice
TransportError == [error |-> TRUE, status |-> 0, json |-> FALSE, content |-> Missing]

Response(status, json, content) == [error |-> FALSE, status |-> status, json |-> json, content |-> content]

NoReply == [error |-> FALSE, status |-> 0, json |-> FALSE, content |-> Missing]

\* lines 200-208: chat_completions after its await
chat_resume(reply) ==
    IF reply.error THEN Resp(502, "Upstream error")
    ELSE IF reply.json THEN Resp(reply.status, "upstream json")
    ELSE Resp(reply.status, "upstream text")

\* line 290: canonicalize_record is called outside the inner try, and the outer
\* try catches httpx.HTTPError only: its exception escapes the handler
Canonicalized(c) ==
    IF c.ok THEN [ok |-> TRUE, resp |-> Resp(200, Success), record |-> c.rec]
    ELSE [ok |-> FALSE, resp |-> Unhandled, record |-> <<>>]

\* lines 282-290: the ValueError of safe_json_from_text is caught
Parsed(parsed) ==
    IF parsed.ok THEN Canonicalized(canonicalize_record(parsed.v))
    ELSE [ok |-> FALSE, resp |-> Resp(502, Failure), record |-> <<>>]

\* lines 272-290 and 303-307: prefill from the reply to the canonical record
prefill_extract(reply) ==
    IF reply.error THEN [ok |-> FALSE, resp |-> Resp(502, Failure), record |-> <<>>]
    ELSE IF reply.status # 200 THEN [ok |-> FALSE, resp |-> Resp(reply.status, Failure), record |-> <<>>]
    ELSE IF ~reply.json \/ reply.content = Missing THEN [ok |-> FALSE, resp |-> Unhandled, record |-> <<>>]
    ELSE Parsed(safe_json_from_text(reply.content))

\* store steps that ensure the header before looking at the outcome
prefill_store_eager(x, f) ==
    IF x.ok THEN [resp |-> x.resp, file |-> AppendRow(ensure_csv_header(f), x.record)]
    ELSE [resp |-> x.resp, file |-> ensure_csv_header(f)]

\* lines 292-301: the store steps of prefill on the store f, for the outcome x
\* of prefill_extract
prefill_store(x, f) ==
    IF x.ok THEN [resp |-> x.resp, file |-> AppendRow(ensure_csv_header(f), x.record)]
    ELSE [resp |-> x.resp, file |-> f]

\* lines 272-307: prefill after its await, on the store f
prefill_resume(reply, f) == prefill_store(prefill_extract(reply), f)

(***************************************************************************)
(* The server as a state machine.  Requests are numbered in their order of *)
(* arrival.  A handler runs on the event loop from the request to its      *)
(* await of the upstream call, and from the reply to its response.         *)
(***************************************************************************)
\* the number of requests the server receives
NumReq == 2

Requests == 1..NumReq

S_gpt4o == <<"g", "p", "t", "-", "4", "o">>

S_ab == <<"a", "/", "b">>

S_xfree == <<"x", ":", "f", "r", "e", "e">>

S_pay == <<" ", "p", "a", "y">>

\* the /v1/prefill payloads the server receives here (PrefillIn: email_text a
\* str, model a str or None): two without an email text, one for each provider
PrefillPayloads ==
    {[email_text |-> e, model |-> None] : e \in {<<>>, <<" ">>, S_pay}}
    \cup {[email_text |-> S_pay, model |-> S_ab]}

With(body, k, v) == [x \in DOMAIN body \cup {k} |-> IF x = k THEN v ELSE body[x]]

ChatBase(m) == [model |-> m, messages |-> "msgs"]

\* the /v1/chat/completions bodies the server receives here: two that lack a
\* required field, one for each provider
ChatBodies ==
    {[messages |-> "msgs"], [model |-> S_gpt4o],
     With(ChatBase(S_gpt5mini), "max_tokens", 100), ChatBase(S_xfree)}

\* the environments drawn: each key a token, unset, or set to the empty string
Envs ==
    {[OPENAI_API_KEY |-> "sk-openai", OPENROUTER_API_KEY |-> "sk-or"],
     [OPENAI_API_KEY |-> "sk-openai", OPENROUTER_API_KEY |-> Unset],
     [OPENAI_API_KEY |-> "", OPENROUTER_API_KEY |-> "sk-or"],
     [OPENAI_API_KEY |-> Unset, OPENROUTER_API_KEY |-> ""]}

C_clean == <<"{", "\"", "a", "m", "o", "u", "n", "t", "\"", ":", "\"", "1", "2", ".", "5", "\"", ",", "\"", "c", "u", "r", "r", "e", "n", "c", "y", "\"", ":", "\"", "E", "U", "R", "\"", ",", "\"", "d", "u", "e", "_", "d", "a", "t", "e", "\"", ":", "\"", "2", "0", "2", "5", "-", "0", "8", "-", "3", "1", "\"", ",", "\"", "d", "e", "s", "c", "r", "i", "p", "t", "i", "o", "n", "\"", ":", "\"", "i", "n", "v", "\"", ",", "\"", "c", "o", "m", "p", "a", "n", "y", "\"", ":", "\"", "A", "c", "m", "e", "\"", ",", "\"", "c", "o", "n", "t", "a", "c", "t", "\"", ":", "\"", "a", "@", "b", ".", "c", "\"", "}">>

C_messy == <<"BT", "BT", "BT", "j", "s", "o", "n", "\n", "{", "LDQ", "a", "m", "o", "u", "n", "t", "RDQ", ":", " ", "1", "2", ".", "5", "0", ",", " ", "\"", "c", "u", "r", "r", "e", "n", "c", "y", "\"", ":", " ", "\"", " ", "E", "U", "R", " ", "\"", ",", " ", "\"", "d", "u", "e", "_", "d", "a", "t", "e", "\"", ":", " ", "n", "u", "l", "l", ",", " ", "\"", "e", "x", "t", "r", "a", "\"", ":", " ", "[", "1", "]", "}", "\n", "BT", "BT", "BT">>

C_garbage == <<"s", "o", "r", "r", "y", ",", " ", "n", "o">>

C_list == <<"[", "1", "]">>

\* the contents of the first choice of the 200 replies drawn
Contents == {C_clean, C_messy, C_garbage, C_list, None, Missing}

\* the upstream outcomes drawn for a prefill call
PrefillReplies ==
    {TransportError, Response(200, FALSE, Missing), Response(500, TRUE, Missing), Response(404, FALSE, Missing)}
    \cup {Response(200, TRUE, c) : c \in Contents}

\* the upstream outcomes drawn for a chat call (the proxy does not read the content)
ChatReplies ==
    {TransportError, Response(200, TRUE, Missing), Response(200, FALSE, Missing),
     Response(500, TRUE, Missing), Response(404, FALSE, Missing)}

NoReq == [endpoint |-> "", payload |-> <<>>]

NoLocal == [record |-> <<>>, need_header |-> FALSE]

VARIABLES
    env,     \* OPENAI_API_KEY and OPENROUTER_API_KEY, read once at start
    file,    \* data.csv: [exists, rows]
    pc,      \* per request: "idle", "awaiting", "header", "append", "done"
    req,     \* per request: the endpoint, and the payload until the upstream reply is consumed
    call,    \* per request: the upstream POST in flight
    calls,   \* per request: the number of upstream POSTs made for it
    reply,   \* per request: the upstream outcome its handler consumed
    resp,    \* per request: the response sent to the caller
    local,   \* per request: prefill's record between its store steps, need_header as computed
    arg,     \* the argument of the function under test
    ret      \* its result

vars == <<env, file, pc, req, call, calls, reply, resp, local, arg, ret>>

NotRun == [run |-> FALSE]

ServerInit ==
    /\ env \in Envs
    /\ file \in {[exists |-> FALSE, rows |-> <<>>], [exists |-> TRUE, rows |-> <<>>]}
    /\ pc = [r \in Requests |-> "idle"]
    /\ req = [r \in Requests |-> NoReq]
    /\ call = [r \in Requests |-> NoCall]
    /\ calls = [r \in Requests |-> 0]
    /\ reply = [r \in Requests |-> NoReply]
    /\ resp = [r \in Requests |-> NoResp]
    /\ local = [r \in Requests |-> NoLocal]

Init == ServerInit /\ arg = <<>> /\ ret = NotRun

Arrives(r) == pc[r] = "idle" /\ (IF r = 1 THEN TRUE ELSE pc[r - 1] # "idle")

\* a handler runs from the request to its await or to its response
Begin(r, endpoint, payload, b) ==
    /\ Arrives(r)
    /\ req' = [req EXCEPT ![r] = [endpoint |-> endpoint, payload |-> payload]]
    /\ pc' = [pc EXCEPT ![r] = IF b.sent THEN "awaiting" ELSE "done"]
    /\ call' = [call EXCEPT ![r] = b.call]
    /\ calls' = [calls EXCEPT ![r] = IF b.sent THEN @ + 1 ELSE @]
    /\ resp' = [resp EXCEPT ![r] = b.resp]
    /\ UNCHANGED <<env, file, reply, local, arg, ret>>

Prefill(r) == \E payload \in PrefillPayloads : Begin(r, "prefill", payload, prefill_begin(payload, env))

Chat(r) == \E body \in ChatBodies : Begin(r, "chat", body, chat_begin(body, env))

\* the upstream call of request r ends with outcome rp and the handler finishes
Finish(r, rp, rs, f) ==
    /\ pc' = [pc EXCEPT ![r] = "done"]
    /\ req' = [req EXCEPT ![r] = [endpoint |-> @.endpoint, payload |-> <<>>]]
    /\ call' = [call EXCEPT ![r] = NoCall]
    /\ reply' = [reply EXCEPT ![r] = rp]
    /\ resp' = [resp EXCEPT ![r] = rs]
    /\ file' = f
    /\ UNCHANGED <<env, calls, local, arg, ret>>

Resume(r, rp, x) == Finish(r, rp, x.resp, x.file)

\* prefill between its await and its store steps, for the outcome x of prefill_extract
RaceResume(r, rp, x) ==
    IF x.ok
    THEN /\ pc' = [pc EXCEPT ![r] = "header"]
         /\ req' = [req EXCEPT ![r] = [endpoint |-> @.endpoint, payload |-> <<>>]]
         /\ call' = [call EXCEPT ![r] = NoCall]
         /\ reply' = [reply EXCEPT ![r] = rp]
         /\ local' = [local EXCEPT ![r] = [record |-> x.record, need_header |-> NeedHeader(file)]]
         /\ UNCHANGED <<env, file, calls, resp, arg, ret>>
    ELSE Finish(r, rp, x.resp, file)

ChatReply(r) ==
    /\ pc[r] = "awaiting" /\ req[r].endpoint = "chat"
    /\ \E rp \in ChatReplies : Finish(r, rp, chat_resume(rp), file)

\* prefill after its await runs to its response without another await
PrefillReply(r) ==
    /\ pc[r] = "awaiting" /\ req[r].endpoint = "prefill"
    /\ \E rp \in PrefillReplies : Resume(r, rp, prefill_resume(rp, file))

Next == \E r \in Requests : Prefill(r) \/ Chat(r) \/ ChatReply(r) \/ PrefillReply(r)

Spec == Init /\ [][Next]_vars

(***************************************************************************)
(* The server when every request is served by a process of its own (more   *)
(* than one worker on the same directory): the store steps of prefill      *)
(* (lines 90, 91-94 and 296-298) of different requests interleave.         *)
(***************************************************************************)
\* lines 272-290, then line 90: the reply is consumed and need_header computed
RaceReply(r) ==
    /\ pc[r] = "awaiting" /\ req[r].endpoint = "prefill"
    /\ \E rp \in PrefillReplies : RaceResume(r, rp, prefill_extract(rp))

\* lines 91-94: the header is written if need_header was computed true
RaceHeader(r) ==
    /\ pc[r] = "header"
    /\ file' = IF local[r].need_header THEN WriteHeader(file) ELSE file
    /\ pc' = [pc EXCEPT ![r] = "append"]
    /\ UNCHANGED <<env, req, call, calls, reply, resp, local, arg, ret>>

\* lines 296-301: the row is appended and the success response returned
RaceAppend(r) ==
    /\ pc[r] = "append"
    /\ file' = AppendRow(file, local[r].record)
    /\ pc' = [pc EXCEPT ![r] = "done"]
    /\ resp' = [resp EXCEPT ![r] = Resp(200, Success)]
    /\ local' = [local EXCEPT ![r] = [record |-> <<>>, need_header |-> @.need_header]]
    /\ UNCHANGED <<env, req, call, calls, reply, arg, ret>>

NextRace == \E r \in Requests : Prefill(r) \/ Chat(r) \/ ChatReply(r) \/ RaceReply(r) \/ RaceHeader(r) \/ RaceAppend(r)

SpecRace == Init /\ [][NextRace]_vars

(***************************************************************************)
(* The handlers up to their await as functions of the request and the      *)
(* environment, on a wider set of requests.                                *)
(***************************************************************************)
WideModels ==
    {<<>>,
     <<"g", "p", "t", "-", "4", "o">>,
     <<"g", "p", "t", "-", "5">>,
     <<"g", "p", "t", "-", "5", "-", "m", "i", "n", "i">>,
     <<"g", "p", "t", "-", "5", "0">>,
     <<"x", "g", "p", "t", "-", "5">>,
     <<"g", "p", "t", "-">>,
     <<"a", "/", "b">>,
     <<"/">>,
     <<"g", "p", "t", "-", "5", "/", "x">>,
     <<"x", ":", "f", "r", "e", "e">>,
     <<":", "f", "r", "e", "e">>,
     <<"f", "r", "e", "e">>,
     <<"x", ":", "f", "r", "e", "e", "x">>,
     <<"g", "p", "t", "-", "5", ":", "f", "r", "e", "e">>,
     <<":", "f", "r", "e">>}

WidePrefillPayloads ==
    {[email_text |-> e, model |-> None] : e \in {<<>>, <<" ">>, <<LF, " ">>, S_pay}}
    \cup {[email_text |-> S_pay, model |-> m] : m \in WideModels}

WideChatBodies ==
    {[messages |-> "msgs"], [model |-> S_gpt4o], [temperature |-> 1], With([messages |-> "msgs"], "max_tokens", 100)}
    \cup {ChatBase(m) : m \in WideModels}
    \cup {With(ChatBase(m), "max_tokens", 100) : m \in WideModels}
    \cup {With(ChatBase(m), "max_completion_tokens", 200) : m \in WideModels}
    \cup {With(With(ChatBase(m), "max_tokens", 100), "max_completion_tokens", 200) : m \in WideModels}

WideEnvs == [OPENAI_API_KEY : {Unset, "", "sk-openai"}, OPENROUTER_API_KEY : {Unset, "", "sk-or"}]

Quiet ==
    /\ file = [exists |-> FALSE, rows |-> <<>>]
    /\ pc = [r \in Requests |-> "idle"]
    /\ req = [r \in Requests |-> NoReq]
    /\ call = [r \in Requests |-> NoCall]
    /\ calls = [r \in Requests |-> 0]
    /\ reply = [r \in Requests |-> NoReply]
    /\ resp = [r \in Requests |-> NoResp]
    /\ local = [r \in Requests |-> NoLocal]

InitBegin ==
    /\ Quiet
    /\ env \in WideEnvs
    /\ arg \in {[endpoint |-> "prefill", payload |-> x] : x \in WidePrefillPayloads}
              \cup {[endpoint |-> "chat", payload |-> x] : x \in WideChatBodies}
    /\ ret = NotRun

Ran(out) == [run |-> TRUE, out |-> out]

RunPrefillBegin ==
    /\ ~ret.run /\ arg.endpoint = "prefill"
    /\ ret' = Ran(prefill_begin(arg.payload, env))
    /\ UNCHANGED <<env, file, pc, req, call, calls, reply, resp, local, arg>>

RunChatBegin ==
    /\ ~ret.run /\ arg.endpoint = "chat"
    /\ ret' = Ran(chat_begin(arg.payload, env))
    /\ UNCHANGED <<env, file, pc, req, call, calls, reply, resp, local, arg>>

NextBegin == RunPrefillBegin \/ RunChatBegin

SpecBegin == InitBegin /\ [][NextBegin]_vars

(***************************************************************************)
(* safe_json_from_text as a function of the text, on texts built from a    *)
(* prefix, a core and a suffix.                                            *)
(***************************************************************************)
Prefixes ==
    {<<>>,
     <<"H", "e", "r", "e", ":", " ">>,
     <<"BT", "BT", "BT", "j", "s", "o", "n", "\n">>,
     <<"BT", "BT", "BT", "\n">>,
     <<"}", " ">>,
     <<"{", "x", "}", " ">>,
     <<" ", "\n">>}

Cores ==
    {<<"{", "\"", "a", "\"", ":", " ", "1", "}">>,
     <<"{", "\"", "a", "\"", ":", " ", "{", "\"", "b", "\"", ":", " ", "\"", "}", "\"", "}", "}">>,
     <<"{", "\"", "a", "\"", ":", " ", "\"", "{", "\"", "}">>,
     <<"{", "LDQ", "a", "RDQ", ":", " ", "RSQ", "x", "RSQ", "}">>,
     <<"{", "LDQ", "a", "RDQ", ":", " ", "LDQ", "b", "RDQ", "}">>,
     <<"[", "1", ",", " ", "2", "]">>,
     <<"1", "2", ".", "5", "0">>,
     <<"{", "}">>,
     <<"{", "\"", "a", "\"", ":", " ", "1", "}", " ", "{", "\"", "b", "\"", ":", " ", "2", "}">>,
     <<"{", "\"", "a", "\"", ":", " ", "1", "}", "}">>,
     <<"{", "{", "\"", "a", "\"", ":", " ", "1", "}">>,
     <<"{", "\"", "a", "\"", ":", " ", "[", "1", ",", " ", "{", "\"", "b", "\"", ":", " ", "n", "u", "l", "l", "}", "]", "}">>,
     <<"{", "\"", "a", "\"", ":", " ", "1", ",", "}">>,
     <<"n", "o", " ", "j", "s", "o", "n">>,
     <<>>,
     <<"\"", "s", "\"">>,
     <<"n", "u", "l", "l">>,
     <<"{", "x", "}", "{", "}">>}

Suffixes ==
    {<<>>,
     <<" ", "t", "h", "a", "n", "k", "s">>,
     <<"\n", "BT", "BT", "BT">>,
     <<" ", "}">>,
     <<" ", "{">>,
     <<"\n", "BT", "BT", "BT", " ", "o", "k">>}

Texts == {a \o b \o c : a \in Prefixes, b \in Cores, c \in Suffixes} \cup {None}

InitExtract ==
    /\ Quiet
    /\ env \in {[OPENAI_API_KEY |-> Unset, OPENROUTER_API_KEY |-> Unset]}
    /\ arg \in Texts
    /\ ret = NotRun

RunExtract ==
    /\ ~ret.run
    /\ ret' = Ran(safe_json_from_text(arg))
    /\ UNCHANGED <<env, file, pc, req, call, calls, reply, resp, local, arg>>

SpecExtract == InitExtract /\ [][RunExtract]_vars

(***************************************************************************)
(* canonicalize_record as a function of the decoded value, and the row     *)
(* prefill stores for it (lines 290-298).                                  *)
(***************************************************************************)
\* marks a key left out of a dict under construction
Absent == [t |-> "absent", s |-> <<>>, n |-> 0, neg |-> FALSE, m |-> <<>>]

RECURSIVE MkDict(_)
\* the dict of the pairs given, without the keys marked absent
MkDict(pairs) ==
    IF pairs = <<>> THEN <<>>
    ELSE IF Head(pairs).v = Absent THEN MkDict(Tail(pairs))
    ELSE <<Head(pairs)>> \o MkDict(Tail(pairs))

Reverse(q) == [i \in 1..Len(q) |-> q[Len(q) + 1 - i]]

AmountValues ==
    {Absent, JNull, JStr(<<"1", "2", ".", "5">>), JStr(<<" ", "7", " ">>), JInt(12), JInt(-3),
     JFloat(FALSE, 12, <<"5", "0">>), JBool(TRUE), JArr(<<JInt(1), JStr(<<"a">>)>>)}

CurrencyValues == {Absent, JNull, JStr(<<" ", "E", "U", "R", " ">>), JInt(5), JObj(<<[k |-> <<"c">>, v |-> JFloat(TRUE, 0, <<"5">>)]>>)}

DueDateValues == {Absent, JStr(<<"2", "0", "2", "5", "-", "0", "8", "-", "3", "1">>), JStr(<<" ">>)}

S_extra == <<"e", "x", "t", "r", "a">>

\* the decoded values drawn: dicts with every combination of the field values
\* above, with and without a key the schema does not know, in two key orders;
\* and values that are no dict
Decoded ==
    {JObj(IF rev THEN Reverse(m) ELSE m) :
        rev \in BOOLEAN,
        m \in {MkDict(<<[k |-> S_amount, v |-> a], [k |-> S_currency, v |-> c], [k |-> S_due_date, v |-> d],
                        [k |-> S_extra, v |-> x], [k |-> S_contact, v |-> t]>>) :
                 a \in AmountValues, c \in CurrencyValues, d \in DueDateValues,
                 x \in {Absent, JInt(1)}, t \in {Absent, JNull}}}
    \cup {JNull, JInt(1), JStr(<<"a">>), JArr(<<>>), JArr(<<JObj(<<>>)>>)}

InitCanon ==
    /\ Quiet
    /\ env \in {[OPENAI_API_KEY |-> Unset, OPENROUTER_API_KEY |-> Unset]}
    /\ arg \in Decoded
    /\ ret = NotRun

\* lines 290-298 for the decoded value arg
RunCanon ==
    /\ ~ret.run
    /\ ret' = Ran(canonicalize_record(arg))
    /\ file' = prefill_store(Canonicalized(canonicalize_record(arg)), file).file
    /\ UNCHANGED <<env, pc, req, call, calls, reply, resp, local, arg>>

SpecCanon == InitCanon /\ [][RunCanon]_vars

(***************************************************************************)
(* Properties of the store.                                                *)
(***************************************************************************)
HeaderCount(rows) == Cardinality({i \in 1..Len(rows) : rows[i].hdr})

DataCount(rows) == Cardinality({i \in 1..Len(rows) : ~rows[i].hdr})

Succeeded(r) == pc[r] = "done" /\ resp[r] = Resp(200, Success)

\* C1: when prefill's store steps run without interleaving, from an absent or
\* empty store: once a request has succeeded the first row of the store is the
\* header and the header occurs exactly once; ensure_csv_header writes the
\* header (and nothing else) exactly when the file is absent or empty, and
\* leaves a store that has content as it is.
C1_HeaderOnce ==
    /\ (\E r \in Requests : Succeeded(r)) =>
          /\ file.rows # <<>>
          /\ file.rows[1] = [hdr |-> TRUE, cells |-> fields]
          /\ HeaderCount(file.rows) = 1
          /\ Len(file.rows) = 1 + Cardinality({r \in Requests : Succeeded(r)})
    /\ (file.exists /\ file.rows # <<>>) => ensure_csv_header(file) = file
    /\ (~file.exists \/ file.rows = <<>>) => ensure_csv_header(file).rows = <<[hdr |-> TRUE, cells |-> fields]>>

\* two requests have succeeded, the second on a store that had content
C1_Witness == Cardinality({r \in Requests : Succeeded(r)}) = 2 /\ Len(file.rows) = 3

\* C2: with the store steps of concurrent requests interleaving, the number of
\* data rows in the store equals the number of requests that have completed
\* their append (no row is removed or overwritten by a later write).
C2_RowsKept == DataCount(file.rows) = Cardinality({r \in Requests : Succeeded(r)})

\* C10: when two requests both saw the empty store and both have
\* written their header, the store holds two header rows.
C10_TwoHeaders ==
    \A r1, r2 \in Requests :
        (r1 # r2 /\ local[r1].need_header /\ local[r2].need_header
            /\ pc[r1] \in {"append", "done"} /\ pc[r2] \in {"append", "done"})
        => HeaderCount(file.rows) = 2

\* the failure outcomes of an upstream call that C3 names
FailureOutcome(rp) ==
    \/ rp.error
    \/ ~rp.error /\ rp.status # 200
    \/ ~rp.error /\ rp.status = 200 /\ rp.json /\ rp.content # Missing /\ ~safe_json_from_text(rp.content).ok

\* C3: a prefill request whose upstream call ends in a failure outcome leaves
\* the store exactly as it was and answers with the uniform failure payload.
C3_FailureLeavesStore ==
    [][\A r \in Requests :
          (pc[r] = "awaiting" /\ req[r].endpoint = "prefill" /\ pc'[r] # "awaiting" /\ FailureOutcome(reply'[r]))
          => /\ file' = file
             /\ pc'[r] = "done"
             /\ resp'[r].body = "success=false;something went wrong"]_vars

\* a request has failed on undecodable text while the store holds a row
C3_Witness ==
    \E r \in Requests :
        /\ pc[r] = "done" /\ req[r].endpoint = "prefill" /\ reply[r] = Response(200, TRUE, C_garbage)
        /\ resp[r] = Resp(502, Failure)
        /\ Len(file.rows) = 2

\* C4: a prefill request whose upstream call returned 200 with a content ends
\* in the success response or in the uniform failure response, whatever the
\* content is.
C4_NoUnhandledFault ==
    \A r \in Requests :
        (pc[r] = "done" /\ req[r].endpoint = "prefill" /\ ~reply[r].error /\ reply[r].status = 200
            /\ reply[r].json /\ reply[r].content # Missing)
        => resp[r].body \in {Success, Failure}

(***************************************************************************)
(* Properties of the handlers up to their await.                           *)
(***************************************************************************)
\* what the claims call a malformed request
Malformed(q) ==
    IF q.endpoint = "prefill"
    THEN \A i \in 1..Len(q.payload.email_text) : q.payload.email_text[i] \in {" ", LF}
    ELSE ~({"model", "messages"} \subseteq DOMAIN q.payload)

\* the model string the dispatcher gets for a request that is not malformed
DispatchedModel(q) ==
    IF q.endpoint = "chat" THEN q.payload.model
    ELSE IF q.payload.model = None \/ q.payload.model = <<>> THEN S_gpt5mini
    ELSE q.payload.model

\* the classification rule as the claims state it
DenotesOpenRouter(m) ==
    \/ \E i \in 1..Len(m) : m[i] = "/"
    \/ Len(m) >= 5 /\ [i \in 1..5 |-> m[Len(m) - 5 + i]] = <<":", "f", "r", "e", "e">>

ProviderKey(m) == IF DenotesOpenRouter(m) THEN env.OPENROUTER_API_KEY ELSE env.OPENAI_API_KEY

ProviderUrl(m) ==
    IF DenotesOpenRouter(m) THEN "https://openrouter.ai/api/v1/chat/completions"
    ELSE "https://api.openai.com/v1/chat/completions"

IsAbsent(key) == key = Unset \/ key = ""

TokenNames(body) == {"max_tokens", "max_completion_tokens"} \cap DOMAIN body

\* C5, as claimed: every payload sent upstream holds exactly one of
\* max_tokens and max_completion_tokens.
C5_ExactlyOne == (ret.run /\ ret.out.sent) => Cardinality(TokenNames(ret.out.call.json)) = 1

\* C5, amended: a payload sent upstream from /v1/prefill holds
\* max_completion_tokens and not max_tokens; a payload sent upstream from
\* /v1/chat/completions holds as many of the two names as the request had
\* (exactly one if it had one; both, or neither, if it had both, or neither),
\* and for a gpt-5 model that had max_tokens alone, max_completion_tokens
\* alone with the same value.
C5_NamesKept ==
    (ret.run /\ ret.out.sent) =>
        /\ arg.endpoint = "prefill" => TokenNames(ret.out.call.json) = {"max_completion_tokens"}
        /\ arg.endpoint = "chat" =>
              /\ Cardinality(TokenNames(ret.out.call.json)) = Cardinality(TokenNames(arg.payload))
              /\ (Len(arg.payload.model) >= 5 /\ SubSeq(arg.payload.model, 1, 5) = <<"g", "p", "t", "-", "5">>
                    /\ TokenNames(arg.payload) = {"max_tokens"})
                 => /\ TokenNames(ret.out.call.json) = {"max_completion_tokens"}
                    /\ ret.out.call.json["max_completion_tokens"] = arg.payload["max_tokens"]

\* a chat request for a gpt-5 model with max_tokens alone was renamed and sent
C5_Witness ==
    /\ ret.run /\ ret.out.sent /\ arg.endpoint = "chat"
    /\ arg.payload = With(ChatBase(S_gpt5mini), "max_tokens", 100)
    /\ ret.out.call.json = With(ChatBase(S_gpt5mini), "max_completion_tokens", 100)

\* C6: a request that is not malformed and whose provider's credential is
\* present makes exactly one upstream call and no second one whatever the
\* outcome; a malformed request is answered 400 without an upstream call; a
\* request whose provider's credential is absent makes no upstream call.
C6_OneCall ==
    \A r \in Requests :
        /\ calls[r] <= 1
        /\ (pc[r] = "done" /\ reply[r] # NoReply) => calls[r] = 1
        /\ (pc[r] # "idle" /\ reply[r] = NoReply) =>
              /\ Malformed(req[r]) => pc[r] = "done" /\ resp[r].status = 400 /\ calls[r] = 0
              /\ (~Malformed(req[r]) /\ IsAbsent(ProviderKey(DispatchedModel(req[r]))))
                 => pc[r] = "done" /\ resp[r].status = 500 /\ calls[r] = 0
              /\ (~Malformed(req[r]) /\ ~IsAbsent(ProviderKey(DispatchedModel(req[r]))))
                 => pc[r] = "awaiting" /\ calls[r] = 1

\* one request's single call ended in a transport error, another was rejected
C6_Witness ==
    \E r1, r2 \in Requests :
        /\ pc[r1] = "done" /\ reply[r1] = TransportError /\ calls[r1] = 1
        /\ pc[r2] = "done" /\ resp[r2].status = 400 /\ calls[r2] = 0

\* C7: for every model string the dispatcher resolves one provider, OpenRouter
\* if the string contains "/" or ends with ":free" and OpenAI otherwise; the
\* call goes to that provider's URL with that provider's credential; the
\* request fails with the 500 "<key> not set" exactly when that credential is
\* absent, whatever the other credential is.
C7_Dispatch ==
    (ret.run /\ ~Malformed(arg)) =>
        IF IsAbsent(ProviderKey(DispatchedModel(arg)))
        THEN /\ ~ret.out.sent
             /\ ret.out.resp.status = 500
             /\ ret.out.resp.body \in {"OPENAI_API_KEY not set", "OPENROUTER_API_KEY not set"}
             /\ (ret.out.resp.body = "OPENROUTER_API_KEY not set") = DenotesOpenRouter(DispatchedModel(arg))
        ELSE /\ ret.out.sent
             /\ ret.out.call.url = ProviderUrl(DispatchedModel(arg))
             /\ ret.out.call.auth = ProviderKey(DispatchedModel(arg))
             /\ ret.out.call.json["model"] = DispatchedModel(arg)

\* a ":free" model without "/" went to OpenRouter while OPENAI_API_KEY is unset
C7_Witness ==
    /\ ret.run /\ arg.endpoint = "chat" /\ arg.payload = ChatBase(S_xfree)
    /\ env.OPENAI_API_KEY = Unset
    /\ ret.out.sent /\ ret.out.call.url = OPENROUTER_URL /\ ret.out.call.auth = "sk-or"

(***************************************************************************)
(* Properties of the canonicaliser and of the extractor.                   *)
(***************************************************************************)
\* the value the claim gives field k of the record made from dict d
ClaimedField(d, k) ==
    IF ~(\E i \in 1..Len(d.m) : d.m[i].k = k) THEN <<>>
    ELSE LET v == d.m[CHOOSE i \in 1..Len(d.m) : d.m[i].k = k].v IN
         IF v.t = "null" THEN <<>>
         ELSE IF k = S_amount /\ v.t \in {"int", "float"} THEN PyStr(v)
         ELSE Strip(PyStr(v))

\* C8: for every dict, canonicalize_record returns a record with exactly the
\* six keys in order, each value a string: the empty string for an absent or
\* null field, the string form of a numeric amount, the stringified and
\* trimmed value otherwise, unknown keys dropped; and the data row stored for
\* it has these six strings in this order.
C8_Canonical ==
    (ret.run /\ arg.t = "dict") =>
        /\ ret.out.ok
        /\ Len(ret.out.rec) = 6
        /\ \A i \in 1..6 :
              /\ ret.out.rec[i].k = <<S_amount, S_currency, S_due_date, S_description, S_company, S_contact>>[i]
              /\ ret.out.rec[i].v \in Seq(STRING)
              /\ ret.out.rec[i].v = ClaimedField(arg, ret.out.rec[i].k)
        /\ Len(file.rows) = 2
        /\ ~file.rows[2].hdr
        /\ file.rows[2].cells = [i \in 1..6 |-> ret.out.rec[i].v]

\* a dict with a float amount, a padded currency and an unknown key was stored
C8_Witness ==
    /\ ret.run /\ arg.t = "dict"
    /\ HasKey(arg, S_extra) /\ HasKey(arg, S_amount) /\ DictGet(arg, S_amount) = JFloat(FALSE, 12, <<"5", "0">>)
    /\ HasKey(arg, S_currency) /\ DictGet(arg, S_currency) = JStr(<<" ", "E", "U", "R", " ">>)
    /\ ~HasKey(arg, S_due_date)
    /\ file.rows[2].cells = <<<<"1", "2", ".", "5">>, <<"E", "U", "R">>, <<>>, <<>>, <<>>, <<>>>>

Min(S) == CHOOSE x \in S : \A y \in S : x <= y

Max(S) == CHOOSE x \in S : \A y \in S : x >= y

Opens(t) == {i \in 1..Len(t) : t[i] = "{"}

Closes(t) == {i \in 1..Len(t) : t[i] = "}"}

\* the brace depth after position i, counted from position a
Depth(t, a, i) == Cardinality(Opens(t) \cap a..i) - Cardinality(Closes(t) \cap a..i)

\* the positions from the first "{" on where the depth is back to zero
Balanced(t) == {i \in Min(Opens(t))..Len(t) : Depth(t, Min(Opens(t)), i) = 0}

\* the three candidates of the claim, in order, those that exist
Candidates(t) ==
    <<t>>
    \o (IF Opens(t) # {} /\ Closes(t) # {} /\ Max(Closes(t)) > Min(Opens(t))
        THEN <<SubSeq(t, Min(Opens(t)), Max(Closes(t)))>> ELSE <<>>)
    \o (IF Opens(t) # {} /\ Balanced(t) # {}
        THEN <<SubSeq(t, Min(Opens(t)), Min(Balanced(t)))>> ELSE <<>>)

Decodable(cs) == {i \in 1..Len(cs) : JsonLoads(cs[i]).ok}

\* C9: safe_json_from_text returns what the first of its three candidates that
\* decodes decodes to (the whole normalised text; the span from the first "{"
\* to the last "}"; the span from the first "{" to the first position where
\* the depth is back to zero), and fails, with no partial result, exactly when
\* the text is absent or none of the three decodes.
C9_Strategies ==
    ret.run =>
        /\ arg = None => ret.out = [ok |-> FALSE, v |-> JNull]
        /\ arg # None =>
              LET cs == Candidates(NormalizeQuotes(_strip_code_fences(arg))) IN
              /\ ret.out.ok = (Decodable(cs) # {})
              /\ ret.out.ok => ret.out = JsonLoads(cs[Min(Decodable(cs))])
              /\ ~ret.out.ok => ret.out.v = JNull

\* the third candidate alone decoded: two objects side by side
C9_Witness ==
    /\ ret.run /\ arg = <<"{", "\"", "a", "\"", ":", " ", "1", "}", " ", "{", "\"", "b", "\"", ":", " ", "2", "}">>
    /\ ret.out = [ok |-> TRUE, v |-> JObj(<<[k |-> <<"a">>, v |-> JInt(1)]>>)]

====
